---- MODULE Spec2Model ----
(***************************************************************************)
(* A model of the onlymusic (MusicMatch / Compatible Vibes) web            *)
(* application: the /api/moments/current and /api/match route handlers,    *)
(* the frontend MatchingService, the NextAuth callbacks and the scoring    *)
(* functions.  Each subsystem has its own specification over the shared    *)
(* variables; the variables of the other subsystems stay at their initial  *)
(* values.                                                                 *)
(***************************************************************************)
EXTENDS Integers, Sequences, FiniteSets, TLC

VARIABLES
  \* ---- /api/moments/current and lib/spotify ----
  spotifyApi,     \* access token held by the module-level SpotifyWebApi object
  clientPromise,  \* state of the shared MongoDB client promise
  momentReq,      \* per request: position in the handler and its locals
  musicMoments,   \* collection musicMoments: userId -> the moment stored
  momentNow,      \* the server clock, in units of 15 minutes
  momentRes       \* the last 200 response of /api/moments/current

momentVars == <<spotifyApi, clientPromise, momentReq, musicMoments, momentNow, momentRes>>

VARIABLES
  \* ---- /api/match and services/matching.ts ----
  users,          \* collection users: the documents have the _ids 1..users
  cachedClient,   \* module-level cachedClient / cachedDb of pages/api/match
  matchReq,       \* the /api/match request in flight
  matchRes,       \* what the /api/match handler did with the last request
  svc             \* the last call of MatchingService.getPotentialMatches

matchVars == <<users, cachedClient, matchReq, matchRes, svc>>

VARIABLES
  \* ---- pages/api/auth/[...nextauth].ts ----
  now,            \* Date.now()
  authorized,     \* the last call of authorize
  signedIn,       \* the last call of the signIn callback
  cookie,         \* the JWT held by the session cookie
  provider,       \* the provider the token was signed in with
  refreshSent,    \* whether a refresh request was sent for the token
  jwtCall,        \* the last invocation of the jwt callback
  session         \* the last result of the session callback

authVars == <<now, authorized, signedIn, cookie, provider, refreshSent, jwtCall, session>>

VARIABLES
  \* ---- utils/playlistAnalyzer.ts ----
  playlist1,      \* the PlaylistProfiles compared
  playlist2,
  compat,         \* the result of calculatePlaylistCompatibility
  \* ---- utils/matchingAlgorithm.ts ----
  listener1,      \* the UserMusicProfiles compared
  listener2,
  matchScore      \* the results of MatchingAlgorithm.calculateMatchScore

compatVars == <<playlist1, playlist2, compat>>
scoreVars == <<listener1, listener2, matchScore>>

VARIABLES
  \* ---- utils/playlistRecommendation.ts: ListeningHistoryMatcher ----
  listener,       \* the UserMusicProfile of the user
  candidate,      \* the potential match: its playlist and profile
  historyScore    \* the result of ListeningHistoryMatcher.calculateMatchScore

historyVars == <<listener, candidate, historyScore>>

VARIABLES
  \* ---- lib/database.ts and pages/api/match: connectToDatabase ----
  dbModule,       \* which of the two modules the process has loaded
  dbCachedClient, \* its module-level cachedClient (0 is null)
  dbCachedDb,     \* its module-level cachedDb (0 is null)
  dbCalls,        \* per call of connectToDatabase: its position and locals
  dbConnects,     \* how often MongoClient.connect was invoked
  dbIndexes       \* how often the createIndex batch was issued

dbVars == <<dbModule, dbCachedClient, dbCachedDb, dbCalls, dbConnects, dbIndexes>>

VARIABLES
  \* ---- utils/playlistRecommendation.ts: PlaylistRecommender ----
  rankedTracks,       \* what rankTracks hands to diversifyRecommendations
  diversifiedTracks   \* what diversifyRecommendations returns

recommendVars == <<rankedTracks, diversifiedTracks>>

vars ==
  <<momentVars, matchVars, authVars, compatVars, scoreVars, historyVars, dbVars,
    recommendVars>>

\* What the actions of one subsystem leave alone.
momentOthers ==
  <<matchVars, authVars, compatVars, scoreVars, historyVars, dbVars, recommendVars>>
matchOthers ==
  <<momentVars, authVars, compatVars, scoreVars, historyVars, dbVars, recommendVars>>
authOthers ==
  <<momentVars, matchVars, compatVars, scoreVars, historyVars, dbVars, recommendVars>>
compatOthers ==
  <<momentVars, matchVars, authVars, scoreVars, historyVars, dbVars, recommendVars>>
scoreOthers ==
  <<momentVars, matchVars, authVars, compatVars, historyVars, dbVars, recommendVars>>
historyOthers ==
  <<momentVars, matchVars, authVars, compatVars, scoreVars, dbVars, recommendVars>>
recommendOthers ==
  <<momentVars, matchVars, authVars, compatVars, scoreVars, historyVars, dbVars>>
dbOthers ==
  <<momentVars, matchVars, authVars, compatVars, scoreVars, historyVars, recommendVars>>

(***************************************************************************)
(* Bounds of the model.                                                    *)
(***************************************************************************)
MaxRequests == 2      \* concurrent /api/moments/current requests
MaxUsers == 22        \* documents in the users collection
MaxTime == 4          \* seconds the clock runs to
MaxGenres == 2        \* dominant genres of a playlist profile
MaxTracks == 2        \* recent tracks of a user music profile
MaxCalls == 3         \* calls of connectToDatabase
MaxTicks == 1         \* quarters of an hour the server clock advances
MaxRanked == 3        \* ranked tracks ahead of the long tail of the catalogue

Undefined == "undefined"
NoObject == [isUndefined |-> TRUE]
NoCall == [called |-> FALSE]

(***************************************************************************)
(* lib/spotify and /api/moments/current                                    *)
(*                                                                         *)
(* An access token is identified by the Spotify user it was issued to.     *)
(* The demo user has no Spotify account: its session carries the empty     *)
(* access token '' (session callback: typedToken.accessToken || '').       *)
(***************************************************************************)
SpotifyUsers == {"u1", "u2"}
MomentUsers  == SpotifyUsers \cup {"demo-user"}

\* The sessions getSession can resolve to: user id, access token, and whether
\* session.expires lies in the past (now > session.expires).
Sessions ==
  [user : SpotifyUsers, hasToken : {TRUE}, expired : BOOLEAN]
    \cup [user : {"demo-user"}, hasToken : {FALSE}, expired : BOOLEAN]

AccessTokenOf(s) == IF s.hasToken THEN s.user ELSE ""

\* The users with a stored moment who make no request here, in the order
\* their documents were inserted.
Crowd ==
  <<"c01", "c02", "c03", "c04", "c05", "c06", "c07", "c08", "c09", "c10", "c11", "c12",
    "c13", "c14", "c15", "c16", "c17", "c18", "c19", "c20", "c21", "c22", "c23", "c24">>

\* The user ids of the collection, in insertion order.
UserList == <<"u1", "u2", "demo-user">> \o Crowd

\* The server clock at the start.
StartTime == 2

\* The window of the aggregate, 15 * 60 * 1000 ms, in units of 15 minutes.
MomentWindow == 1

\* $limit
MomentLimit == 20

NoMoment == [stored |-> FALSE, owner |-> "", timestamp |-> 0]
Moment(owner, timestamp) == [stored |-> TRUE, owner |-> owner, timestamp |-> timestamp]

\* The moments the crowd has stored before the start: stamped up to two
\* quarters of an hour before the start.
CrowdMoments ==
  [u \in {Crowd[i] : i \in 1..Len(Crowd)} |->
     LET i == CHOOSE j \in 1..Len(Crowd) : Crowd[j] = u
     IN Moment(u, IF i % 8 = 0 THEN StartTime - 2 ELSE StartTime - (i % 2))]

\* $lookup from users and $unwind: a moment whose userId has no document in
\* users is dropped.  The demo user and one of the crowd have none.
HasUserInfo(userId) == userId \notin {"demo-user", "c07"}

\* What a request has found and done at its upsert.
NoUpsert == [item |-> "", ownBefore |-> NoMoment, ownAfter |-> NoMoment, upsertAt |-> 0]

IdleRequest ==
  [pc |-> "idle", session |-> Undefined, usedToken |-> Undefined, status |-> 0,
   upsert |-> NoUpsert]

NoResponse == [answered |-> FALSE]

\* The collection at the start holds the moments of the crowd.
MomentInit ==
  /\ spotifyApi = Undefined
  /\ clientPromise = "pending"
  /\ momentReq = [r \in 1..MaxRequests |-> IdleRequest]
  /\ musicMoments =
       [u \in {UserList[i] : i \in 1..Len(UserList)} |->
          IF u \in DOMAIN CrowdMoments THEN CrowdMoments[u] ELSE NoMoment]
  /\ momentNow = StartTime
  /\ momentRes = NoResponse

\* getSpotifyApi, up to its first await: the token of the session is written
\* into the shared object when the session has one.
SetAccessToken(api, s) ==
  IF AccessTokenOf(s) # "" THEN AccessTokenOf(s) ELSE api

\* Whether getSpotifyApi awaits spotifyApi.refreshAccessToken().
NeedsRefresh(s) == s.expired /\ AccessTokenOf(s) # ""

\* The handler from `await clientPromise` on, for the state cp of the client
\* promise.  With the promise already resolved no other request runs before
\* spotify.getMyCurrentPlayingTrack() is called (only microtasks lie
\* between), so the call is issued within the same step, with the token the
\* shared object holds at that moment.  With the promise pending the request
\* waits; with it rejected the catch answers 500.
AfterGetSpotifyApi(req, api, cp) ==
  CASE cp = "resolved" -> [req EXCEPT !.pc = "playing", !.usedToken = api]
    [] cp = "rejected" -> [req EXCEPT !.pc = "done", !.status = 500]
    [] OTHER -> [req EXCEPT !.pc = "awaitClient"]

\* const session = await getSession({ req }); 401 without a session.  The
\* requests are numbered in the order they arrive in.
GetSession(r) ==
  /\ momentReq[r].pc = "idle"
  /\ \A q \in 1..(r - 1) : momentReq[q].pc # "idle"
  /\ \/ momentReq' = [momentReq EXCEPT ![r].pc = "done", ![r].status = 401]
     \/ \E s \in Sessions :
          momentReq' = [momentReq EXCEPT ![r].pc = "hasSession", ![r].session = s]
  /\ UNCHANGED <<momentOthers, spotifyApi, clientPromise, musicMoments, momentNow, momentRes>>

\* const spotify = await getSpotifyApi(session)
GetSpotifyApi(r) ==
  /\ momentReq[r].pc = "hasSession"
  /\ LET s == momentReq[r].session
         api == SetAccessToken(spotifyApi, s)
     IN /\ spotifyApi' = api
        /\ momentReq' =
             [momentReq EXCEPT ![r] =
                IF NeedsRefresh(s) THEN [@ EXCEPT !.pc = "refreshing"]
                ELSE AfterGetSpotifyApi(@, api, clientPromise)]
  /\ UNCHANGED <<momentOthers, clientPromise, musicMoments, momentNow, momentRes>>

\* spotifyApi.refreshAccessToken() settles: on success the new token (again a
\* token of the session's user) is written into the shared object, on failure
\* the handler's catch answers 500.
RefreshSettles(r) ==
  /\ momentReq[r].pc = "refreshing"
  /\ \/ /\ spotifyApi' = momentReq[r].session.user
        /\ momentReq' =
             [momentReq EXCEPT ![r] =
                AfterGetSpotifyApi(@, momentReq[r].session.user, clientPromise)]
     \/ /\ momentReq' = [momentReq EXCEPT ![r].pc = "done", ![r].status = 500]
        /\ UNCHANGED spotifyApi
  /\ UNCHANGED <<momentOthers, clientPromise, musicMoments, momentNow, momentRes>>

\* The MongoDB client promise of lib/mongodb settles: the requests waiting
\* for it resume one after the other before anything else runs.
ClientPromiseSettles ==
  /\ clientPromise = "pending"
  /\ \E cp \in {"resolved", "rejected"} :
       /\ clientPromise' = cp
       /\ momentReq' =
            [r \in 1..MaxRequests |->
               IF momentReq[r].pc = "awaitClient"
               THEN AfterGetSpotifyApi(momentReq[r], spotifyApi, cp)
               ELSE momentReq[r]]
  /\ UNCHANGED <<momentOthers, spotifyApi, musicMoments, momentNow, momentRes>>

\* What Spotify answers to getMyCurrentPlayingTrack for a token: nothing
\* playing, a music track, a podcast episode (no artists, no album), or a
\* track whose artists or album images are empty.
PlayingItems == {"nothing", "track", "episode", "bareTrack"}

\* The upsert of lines 115-132: only an item with artists and album is
\* stored, under the session's user id, stamped new Date().
UpsertMoment(moments, userId, item, owner, date) ==
  IF item \in {"track", "bareTrack"}
  THEN [moments EXCEPT ![userId] = Moment(owner, date)]
  ELSE moments

\* track.artists[0].name and track.album.images[0].url throw on an empty
\* array.
UpsertThrows(item) == item = "bareTrack"

\* getMyCurrentPlayingTrack settles and the moment is upserted; a rejection
\* of either call, or a throw in between, is answered 500 by the catch.
PlayingSettles(r) ==
  /\ momentReq[r].pc = "playing"
  /\ LET req == momentReq[r]
         failed == [momentReq EXCEPT ![r].pc = "done", ![r].status = 500]
     IN IF req.usedToken = Undefined
        THEN \* no token on the request: Spotify answers 401, the call rejects
             /\ momentReq' = failed
             /\ UNCHANGED musicMoments
        ELSE \/ \E item \in PlayingItems :
                  IF UpsertThrows(item)
                  THEN /\ momentReq' = failed
                       /\ UNCHANGED musicMoments
                  ELSE LET stored == UpsertMoment(musicMoments, req.session.user, item,
                                                  req.usedToken, momentNow)
                       IN /\ musicMoments' = stored
                          /\ momentReq' =
                               [momentReq EXCEPT
                                  ![r].pc = "query",
                                  ![r].upsert =
                                    [item |-> item,
                                     ownBefore |-> musicMoments[req.session.user],
                                     ownAfter |-> stored[req.session.user],
                                     upsertAt |-> momentNow]]
             \/ /\ momentReq' = failed
                /\ UNCHANGED musicMoments
  /\ UNCHANGED <<momentOthers, spotifyApi, clientPromise, momentNow, momentRes>>

\* The moments of one timestamp, in insertion order.
RECURSIVE Bucket(_, _, _, _)
Bucket(moments, matches, timestamp, i) ==
  IF i > Len(UserList) THEN <<>>
  ELSE LET u == UserList[i]
       IN (IF u \in matches /\ moments[u].timestamp = timestamp
           THEN <<[userId |-> u, timestamp |-> timestamp]>> ELSE <<>>)
          \o Bucket(moments, matches, timestamp, i + 1)

Reverse(seq) == [i \in 1..Len(seq) |-> seq[Len(seq) + 1 - i]]

\* $sort: { timestamp: -1 } from the timestamp `from` down to `to`.  The
\* order among equal timestamps is not specified: `tie` tells whether
\* insertion order or its reverse comes out.
RECURSIVE SortNewestFirst(_, _, _, _, _)
SortNewestFirst(moments, matches, from, to, tie) ==
  IF from < to THEN <<>>
  ELSE LET bucket == Bucket(moments, matches, from, 1)
       IN (IF tie = "reverse" THEN Reverse(bucket) ELSE bucket)
          \o SortNewestFirst(moments, matches, from - 1, to, tie)

\* A $match that does not exclude the session's user.
MomentMatchAll(moment, userId, sessionUserId, dateNow) ==
  /\ moment.stored
  /\ moment.timestamp >= dateNow - MomentWindow

\* $match: timestamp $gte Date.now() - 15 min, userId $ne session.user.id
MomentMatch(moment, userId, sessionUserId, dateNow) ==
  /\ moment.stored
  /\ moment.timestamp >= dateNow - MomentWindow
  /\ userId # sessionUserId

\* $limit: 20
Limit(seq) == IF Len(seq) <= MomentLimit THEN seq ELSE SubSeq(seq, 1, MomentLimit)

\* The aggregate of lines 135-167: the recent moments of the other users
\* that have a user document, newest first, at most 20.
RecentMoments(moments, userId, dateNow, tie) ==
  LET matches == {u \in DOMAIN moments :
                    MomentMatch(moments[u], u, userId, dateNow) /\ HasUserInfo(u)}
  IN Limit(SortNewestFirst(moments, matches, momentNow, dateNow - MomentWindow, tie))

\* The aggregate settles and the handler answers 200 (or 500 when it rejects).
QuerySettles(r) ==
  /\ momentReq[r].pc = "query"
  /\ \/ \E tie \in {"insertion", "reverse"} :
          /\ momentReq' = [momentReq EXCEPT ![r].pc = "done", ![r].status = 200,
                                            ![r].upsert = NoUpsert]
          /\ momentRes' =
               [answered |-> TRUE, userId |-> momentReq[r].session.user,
                upsert |-> momentReq[r].upsert, queryAt |-> momentNow,
                body |-> RecentMoments(musicMoments, momentReq[r].session.user,
                                       momentNow, tie)]
     \/ /\ momentReq' = [momentReq EXCEPT ![r].pc = "done", ![r].status = 500,
                                           ![r].upsert = NoUpsert]
        /\ UNCHANGED momentRes
  /\ UNCHANGED <<momentOthers, spotifyApi, clientPromise, musicMoments, momentNow>>

\* A quarter of an hour passes.
Tick ==
  /\ momentNow < StartTime + MaxTicks
  /\ momentNow' = momentNow + 1
  /\ UNCHANGED <<momentOthers, spotifyApi, clientPromise, momentReq, musicMoments,
                 momentRes>>

MomentNext ==
  \/ \E r \in 1..MaxRequests : GetSession(r)
  \/ \E r \in 1..MaxRequests : GetSpotifyApi(r)
  \/ \E r \in 1..MaxRequests : RefreshSettles(r)
  \/ ClientPromiseSettles
  \/ \E r \in 1..MaxRequests : PlayingSettles(r)
  \/ \E r \in 1..MaxRequests : QuerySettles(r)
  \/ Tick

\* No request is between its arrival and its response.
NoneInFlight == \A r \in 1..MaxRequests : momentReq[r].pc \in {"idle", "done"}

\* A request arrives while no other is being handled.
Arrive(r) == NoneInFlight /\ GetSession(r)

\* The requests handled one after the other.
MomentQueryNext ==
  \/ \E r \in 1..MaxRequests : Arrive(r)
  \/ \E r \in 1..MaxRequests : GetSpotifyApi(r)
  \/ \E r \in 1..MaxRequests : RefreshSettles(r)
  \/ ClientPromiseSettles
  \/ \E r \in 1..MaxRequests : PlayingSettles(r)
  \/ \E r \in 1..MaxRequests : QuerySettles(r)
  \/ Tick

(***************************************************************************)
(* pages/api/match/index.ts                                                *)
(*                                                                         *)
(* Scores are in hundredths.  A JSON object is a record; a field the       *)
(* object does not have reads as undefined.                                *)
(***************************************************************************)
MatchLimit == 20

Has(obj, f) == f \in DOMAIN obj

\* Identifiers as they appear in JSON: an ObjectId, a literal string, or
\* undefined.
JsonOid(i) == [s |-> "oid", n |-> i]
JsonStr(str) == [s |-> str, n |-> 0]
UndefinedId == [s |-> Undefined, n |-> 0]

\* The user documents: _id, playlistId, photoUrl.
UserDoc(i) == [_id |-> i, playlistId |-> <<"playlist", i>>, photoUrl |-> <<"photo", i>>]

\* Math.random(): a pseudo-random generator with hidden state; the n-th draw
\* after the state `seed`.  The draws are 0, 0.25, 0.5 and 0.75.
RECURSIVE RngState(_, _)
RngState(seed, n) == IF n = 0 THEN seed ELSE (5 * RngState(seed, n - 1) + 3) % 16

MathRandom(seed, n) == 25 * (RngState(seed, n) \div 4)

Seeds == 0..15

\* calculateMatchScore for the k-th candidate: the music score is drawn
\* first, the photo score second; 0.6 * photoScore + 0.4 * musicScore.
CalculateMatchScore(seed, k) ==
  LET musicScore == MathRandom(seed, 2 * k - 1)
      photoScore == MathRandom(seed, 2 * k)
  IN (60 * photoScore + 40 * musicScore) \div 100

\* db.collection('users').findOne({ _id: userId })
FindOne(n, userId) ==
  IF userId \in 1..n THEN [found |-> TRUE, doc |-> UserDoc(userId)]
  ELSE [found |-> FALSE]

\* The filter of find(): { _id: { $ne: userId } }
MatchFilter(id, userId) == id # userId

\* db.collection('users').find({ _id: { $ne: userId } }).limit(20).toArray(),
\* in the natural order of the collection.
RECURSIVE FindMatches(_, _, _, _)
FindMatches(n, userId, from, limit) ==
  IF from > n \/ limit = 0 THEN <<>>
  ELSE IF MatchFilter(from, userId)
       THEN <<UserDoc(from)>> \o FindMatches(n, userId, from + 1, limit - 1)
       ELSE FindMatches(n, userId, from + 1, limit)

\* matches.map(match => ({ ...match, score: calculateMatchScore(user, match) }))
ScoredMatches(matches, seed) ==
  [k \in 1..Len(matches) |->
     [_id |-> matches[k]._id, playlistId |-> matches[k].playlistId,
      photoUrl |-> matches[k].photoUrl, score |-> CalculateMatchScore(seed, k)]]

\* A comparator that sorts by ascending score.
CompareAscending(a, b) == a.score - b.score

\* The comparator of the sort: (a, b) => b.score - a.score.
Compare(a, b) == b.score - a.score

\* Array.prototype.sort with that comparator (a stable sort): x is inserted
\* behind the elements it does not have to precede.
RECURSIVE Insert(_, _)
Insert(x, sorted) ==
  IF sorted = <<>> THEN <<x>>
  ELSE IF Compare(Head(sorted), x) <= 0
       THEN <<Head(sorted)>> \o Insert(x, Tail(sorted))
       ELSE <<x>> \o sorted

RECURSIVE SortMatches(_)
SortMatches(s) ==
  IF s = <<>> THEN <<>>
  ELSE Insert(s[Len(s)], SortMatches(SubSeq(s, 1, Len(s) - 1)))

\* .map(match => ({ id, playlistId, photoUrl, score }))
SortedMatches(scored) ==
  LET sorted == SortMatches(scored)
  IN [k \in 1..Len(sorted) |->
        [id |-> JsonOid(sorted[k]._id), playlistId |-> sorted[k].playlistId,
         photoUrl |-> sorted[k].photoUrl, score |-> sorted[k].score]]

\* connectToDatabase of pages/api/match: the cached client is reused, otherwise
\* MongoClient.connect is called and, when it resolves, its client is cached.
ConnectToDatabase(cached, fail) ==
  IF cached # Undefined
  THEN [threw |-> FALSE, connects |-> 0, cached |-> cached]
  ELSE IF fail = "connect"
       THEN [threw |-> TRUE, connects |-> 1, cached |-> cached]
       ELSE [threw |-> FALSE, connects |-> 1, cached |-> "client"]

\* A method check that lets every method through.
MethodAllowedAny(method) == TRUE

\* req.method !== 'GET' answers 405.
MethodAllowed(method) == method = "GET"

\* new ObjectId(req.query.userId): without the parameter a fresh id (0, the
\* id of no document); a string that is no ObjectId makes it throw.
ObjectIdThrows(q) == q.kind = "invalid"
ObjectId(q) == IF q.kind = "absent" THEN 0 ELSE q.id

Response(status, body) == [status |-> status, body |-> body]
ErrorBody(message) == [kind |-> "object", message |-> message]

NoScored == <<>>

\* One run of the handler: the responses it sends, in order, the calls of
\* MongoClient.connect and the queries it makes, the cache it leaves and
\* the scores it computed.
HandlerTry(req, q, fail, seed, cached, n) ==
  LET conn == ConnectToDatabase(cached, fail)
      r500 == Response(500, ErrorBody("Internal server error"))
  IN IF conn.threw
     THEN [called |-> TRUE, req |-> req, sent |-> <<r500>>, connects |-> conn.connects, queries |-> 0,
           cached |-> conn.cached, scored |-> NoScored, hasUserId |-> FALSE, userId |-> 0]
     ELSE IF ObjectIdThrows(q)
     THEN [called |-> TRUE, req |-> req, sent |-> <<r500>>, connects |-> conn.connects, queries |-> 0,
           cached |-> conn.cached, scored |-> NoScored, hasUserId |-> FALSE, userId |-> 0]
     ELSE IF fail = "findOne"
     THEN [called |-> TRUE, req |-> req, sent |-> <<r500>>, connects |-> conn.connects, queries |-> 1,
           cached |-> conn.cached, scored |-> NoScored, hasUserId |-> TRUE, userId |-> ObjectId(q)]
     ELSE IF ~FindOne(n, ObjectId(q)).found
     THEN [called |-> TRUE, req |-> req, sent |-> <<Response(404, ErrorBody("User not found"))>>,
           connects |-> conn.connects, queries |-> 1,
           cached |-> conn.cached, scored |-> NoScored, hasUserId |-> TRUE, userId |-> ObjectId(q)]
     ELSE IF fail = "find"
     THEN [called |-> TRUE, req |-> req, sent |-> <<r500>>, connects |-> conn.connects, queries |-> 2,
           cached |-> conn.cached, scored |-> NoScored, hasUserId |-> TRUE, userId |-> ObjectId(q)]
     ELSE LET scored == ScoredMatches(FindMatches(n, ObjectId(q), 1, MatchLimit), seed)
          IN [called |-> TRUE, req |-> req, sent |-> <<Response(200, [kind |-> "array", items |-> SortedMatches(scored)])>>,
              connects |-> conn.connects, queries |-> 2,
              cached |-> conn.cached, scored |-> scored, hasUserId |-> TRUE,
              userId |-> ObjectId(q)]

HandlerRun(req, method, hasSession, q, fail, seed, cached, n) ==
  IF ~MethodAllowed(method)
  THEN [called |-> TRUE, req |-> req, sent |-> <<Response(405, ErrorBody("Method not allowed"))>>, connects |-> 0,
        queries |-> 0, cached |-> cached, scored |-> NoScored, hasUserId |-> FALSE, userId |-> 0]
  ELSE IF ~hasSession
  THEN [called |-> TRUE, req |-> req, sent |-> <<Response(401, ErrorBody("Unauthorized"))>>, connects |-> 0,
        queries |-> 0, cached |-> cached, scored |-> NoScored, hasUserId |-> FALSE, userId |-> 0]
  ELSE HandlerTry(req, q, fail, seed, cached, n)

Methods == {"GET", "POST"}
FailPoints == {"none", "connect", "findOne", "find"}
QueryIds(n) ==
  {[kind |-> "absent", id |-> 0], [kind |-> "invalid", id |-> 0]}
    \cup [kind : {"id"}, id : 0..n]

MatchInit ==
  /\ users \in 0..MaxUsers
  /\ cachedClient = Undefined
  /\ matchReq = NoCall
  /\ matchRes = NoCall
  /\ svc = NoCall

\* A request for /api/match arrives: its method, whether getSession resolves
\* to a session, req.query.userId and the database step that will throw.
Request(method, hasSession, q, fail) ==
  /\ matchReq = NoCall /\ matchRes = NoCall /\ svc = NoCall
  /\ fail = "connect" => cachedClient = Undefined
  /\ matchReq' = [called |-> TRUE, method |-> method, hasSession |-> hasSession,
                  q |-> q, fail |-> fail]
  /\ UNCHANGED <<matchOthers, users, cachedClient, matchRes, svc>>

\* The /api/match handler serves the request; seed is the state Math.random
\* is in.
Handler(seed) ==
  /\ matchReq # NoCall
  /\ matchRes' = HandlerRun(matchReq, matchReq.method, matchReq.hasSession, matchReq.q,
                            matchReq.fail, seed, cachedClient, users)
  /\ cachedClient' = matchRes'.cached
  /\ matchReq' = NoCall
  /\ UNCHANGED <<matchOthers, users, svc>>

(***************************************************************************)
(* services/matching.ts                                                    *)
(***************************************************************************)
Track(id, name) == [id |-> id, name |-> name]

\* The hard-coded sample matches of the catch block.
MockMatches ==
  << [id |-> JsonStr("match1"), name |-> "Music Lover", matchScore |-> 85,
      recentTracks |-> << Track("track1", "Bohemian Rhapsody"),
                          Track("track2", "Hotel California"),
                          Track("track3", "Stairway to Heaven") >>],
     [id |-> JsonStr("match2"), name |-> "Indie Fan", matchScore |-> 78,
      recentTracks |-> << Track("track4", "Midnight City"),
                          Track("track5", "Do I Wanna Know?"),
                          Track("track6", "Skinny Love") >>] >>

\* transformTracks: id: track.id || track._id, name: track.name || 'Unknown Track'
TransformTracks(apiTracks) ==
  [k \in 1..Len(apiTracks) |->
     Track(IF Has(apiTracks[k], "id") THEN apiTracks[k].id
           ELSE IF Has(apiTracks[k], "_id") THEN apiTracks[k]._id ELSE Undefined,
           IF Has(apiTracks[k], "name") /\ apiTracks[k].name # ""
           THEN apiTracks[k].name ELSE "Unknown Track")]

\* The mapping of lines 37-42 for one element of data.matches.
TransformMatch(match) ==
  [id |-> IF Has(match, "_id") THEN match._id ELSE UndefinedId,
   name |-> IF Has(match, "name") /\ match.name # "" THEN match.name ELSE "Music Match",
   matchScore |-> IF Has(match, "score") /\ match.score # 0 THEN match.score ELSE 75,
   recentTracks |-> TransformTracks(IF Has(match, "tracks") THEN match.tracks ELSE <<>>)]

IsNull(v) == Has(v, "isNull")

\* response.ok: a status in 200..299.
ResponseOk(response) == response.status \in 200..299

\* Whether data.matches.map(...) can be evaluated on the parsed body: data is
\* an object with an array `matches` none of whose elements is null.
Mappable(body) ==
  /\ body.kind = "object"
  /\ Has(body, "matches")
  /\ body.matches.isArray
  /\ \A k \in 1..Len(body.matches.items) : ~IsNull(body.matches.items[k])

\* A session check that lets a call without a session go on.
AuthenticatedAlways(hasSession) == TRUE

\* Whether the session check lets the call go on to fetch.
Authenticated(hasSession) == hasSession

\* The try block of getPotentialMatches: it throws, or returns the matches
\* mapped from data.matches.
TryGetMatches(hasSession, outcome) ==
  IF ~Authenticated(hasSession) THEN [threw |-> TRUE]
  ELSE IF outcome.kind = "networkError" THEN [threw |-> TRUE]
  ELSE IF ~ResponseOk(outcome) THEN [threw |-> TRUE]
  ELSE IF outcome.body.kind = "invalid" THEN [threw |-> TRUE]
  ELSE IF ~Mappable(outcome.body) THEN [threw |-> TRUE]
  ELSE [threw |-> FALSE,
        value |-> [k \in 1..Len(outcome.body.matches.items) |->
                     TransformMatch(outcome.body.matches.items[k])]]

\* getPotentialMatches: the catch block turns every throw into the mocks.
GetPotentialMatches(hasSession, outcome) ==
  LET try == TryGetMatches(hasSession, outcome)
  IN IF try.threw THEN [settled |-> "resolved", value |-> MockMatches]
     ELSE [settled |-> "resolved", value |-> try.value]

\* Responses a server behind /api/match may give besides those of the handler
\* above, and a failed fetch.
ObjectBody(matches) == [kind |-> "object", matches |-> matches]
ArrayOf(items) == [isArray |-> TRUE, items |-> items]
SampleMatchA ==
  [_id |-> JsonStr("a"), name |-> "Ann", score |-> 50,
   tracks |-> << [id |-> "t1", name |-> "Song"], [_id |-> "t2"] >>]
SampleMatchB == [_id |-> JsonStr("b")]
SampleMatchC == [_id |-> JsonStr("c"), name |-> "", score |-> 0]

SampleOutcomes ==
  { [kind |-> "networkError"],
    [kind |-> "response", status |-> 200, body |-> ObjectBody(ArrayOf(<<>>))],
    [kind |-> "response", status |-> 200,
     body |-> ObjectBody(ArrayOf(<<SampleMatchA, SampleMatchB>>))],
    [kind |-> "response", status |-> 200, body |-> ObjectBody(ArrayOf(<<SampleMatchC>>))],
    [kind |-> "response", status |-> 200,
     body |-> ObjectBody(ArrayOf(<<SampleMatchA, [isNull |-> TRUE]>>))],
    [kind |-> "response", status |-> 200, body |-> ObjectBody([isArray |-> FALSE])],
    [kind |-> "response", status |-> 200, body |-> [kind |-> "invalid"]],
    [kind |-> "response", status |-> 200, body |-> [kind |-> "object"]],
    [kind |-> "response", status |-> 500,
     body |-> ObjectBody(ArrayOf(<<SampleMatchA>>))] }

ServiceResult(hasSession, outcome, fromHandler) ==
  LET res == GetPotentialMatches(hasSession, outcome)
  IN [called |-> TRUE, hasSession |-> hasSession, outcome |-> outcome,
      fromHandler |-> fromHandler, settled |-> res.settled, value |-> res.value]

\* getPotentialMatches is called and its fetch('/api/match') receives the
\* response the handler has sent.
GetPotentialMatchesOfHandler(hasSession) ==
  /\ svc = NoCall /\ matchRes # NoCall
  /\ svc' = ServiceResult(hasSession,
               [kind |-> "response", status |-> matchRes.sent[1].status,
                body |-> matchRes.sent[1].body], TRUE)
  /\ matchRes' = NoCall
  /\ UNCHANGED <<matchOthers, users, cachedClient, matchReq>>

\* getPotentialMatches is called and its fetch fails or receives one of the
\* sample responses.
GetPotentialMatchesOfSample(hasSession, outcome) ==
  /\ svc = NoCall /\ matchRes = NoCall /\ matchReq = NoCall
  /\ svc' = ServiceResult(hasSession, outcome, FALSE)
  /\ UNCHANGED <<matchOthers, users, cachedClient, matchReq, matchRes>>
\* The response has been delivered and the result of the service used.
Deliver ==
  /\ matchRes # NoCall \/ svc # NoCall
  /\ matchRes' = NoCall
  /\ svc' = NoCall
  /\ UNCHANGED <<matchOthers, users, cachedClient, matchReq>>

MatchNext ==
  \/ \E method \in Methods, hasSession \in BOOLEAN, q \in QueryIds(users),
        fail \in FailPoints :
       Request(method, hasSession, q, fail)
  \/ \E seed \in Seeds : Handler(seed)
  \/ \E hasSession \in BOOLEAN : GetPotentialMatchesOfHandler(hasSession)
  \/ \E hasSession \in BOOLEAN, outcome \in SampleOutcomes :
       GetPotentialMatchesOfSample(hasSession, outcome)
  \/ Deliver


(***************************************************************************)
(* pages/api/auth/[...nextauth].ts                                         *)
(*                                                                         *)
(* Times are in milliseconds, as Date.now() gives them.                    *)
(***************************************************************************)
\* credentials?.username, profile?.email: undefined when the object or the
\* field is missing.
Field(obj, f) == IF obj = NoObject THEN Undefined ELSE IF Has(obj, f) THEN obj[f] ELSE Undefined

DemoUser ==
  [id |-> "demo-user", name |-> "Demo User", email |-> "demo@musicmatch.example",
   image |-> "/musicmatch-logo-fun.svg"]
NullUser == [isNull |-> TRUE]

\* An authorize that accepts when either field matches.
AuthorizeEither(credentials) ==
  IF Field(credentials, "username") = "demo" \/ Field(credentials, "password") = "demo123"
  THEN DemoUser ELSE NullUser

\* CredentialsProvider.authorize
Authorize(credentials) ==
  IF Field(credentials, "username") = "demo" /\ Field(credentials, "password") = "demo123"
  THEN DemoUser ELSE NullUser

Allowed == [allowed |-> TRUE]
Redirect(url) == [allowed |-> FALSE, redirect |-> url]

\* callbacks.signIn
SignIn(providerId, profile) ==
  IF providerId = "demo-login" THEN Allowed
  ELSE IF providerId = "spotify"
       THEN IF Field(profile, "email") = Undefined \/ Field(profile, "email") = ""
            THEN Redirect("/auth/error?error=NoEmailProvided")
            ELSE Allowed
       ELSE Allowed

NoToken == [signedIn |-> FALSE]

\* callbacks.jwt on the initial sign-in (account && user): the account's
\* tokens and the user are copied into the token.  expiresAt is
\* account.expires_at in seconds, 0 when the account has none.
JwtInitial(account, user) ==
  [signedIn |-> TRUE,
   accessToken |-> account.access_token,
   refreshToken |-> account.refresh_token,
   accessTokenExpires |-> IF account.expires_at # 0 THEN account.expires_at * 1000 ELSE 0,
   error |-> Undefined,
   user |-> user.id]

\* A refresh condition that leaves out the check of the refresh token and of
\* the demo user.
ShouldRefreshAlways(token) == TRUE

\* callbacks.jwt, line 266: only with a refresh token and not for the demo user.
ShouldRefresh(token) == token.refreshToken # Undefined /\ token.user # "demo-user"

\* An expiry test that still accepts the token at its expiry time.
NotExpiredInclusive(token, dateNow) ==
  token.accessTokenExpires # 0 /\ dateNow <= token.accessTokenExpires

\* callbacks.jwt, line 258: the access token has not expired yet.
NotExpired(token, dateNow) ==
  token.accessTokenExpires # 0 /\ dateNow < token.accessTokenExpires

\* What the POST to accounts.spotify.com/api/token can come to: the fetch or
\* response.json() throws, the response is not OK, or it is OK and carries
\* access_token, expires_in (seconds) and possibly a refresh_token.
RefreshOutcomes ==
  {[kind |-> "throws"], [kind |-> "notOk"]}
    \cup [kind : {"ok"}, access_token : {"at1", "at2"}, expires_in : {1, 2},
          refresh_token : {Undefined, "rt1"}]

\* A refreshAccessToken whose failure drops the access token.
RefreshAccessTokenClearing(token, outcome, dateNow) ==
  IF token.refreshToken = Undefined \/ outcome.kind # "ok"
  THEN [sent |-> token.refreshToken # Undefined,
        token |-> [token EXCEPT !.error = "RefreshAccessTokenError",
                                !.accessToken = Undefined]]
  ELSE [sent |-> TRUE,
        token |-> [token EXCEPT
                     !.accessToken = outcome.access_token,
                     !.accessTokenExpires = dateNow + outcome.expires_in * 1000,
                     !.refreshToken = IF outcome.refresh_token # Undefined
                                      THEN outcome.refresh_token ELSE @]]

\* A refreshAccessToken that always takes the refresh token of the response.
RefreshAccessTokenNoFallback(token, outcome, dateNow) ==
  IF token.refreshToken = Undefined \/ outcome.kind # "ok"
  THEN [sent |-> token.refreshToken # Undefined,
        token |-> [token EXCEPT !.error = "RefreshAccessTokenError"]]
  ELSE [sent |-> TRUE,
        token |-> [token EXCEPT
                     !.accessToken = outcome.access_token,
                     !.accessTokenExpires = dateNow + outcome.expires_in * 1000,
                     !.refreshToken = outcome.refresh_token]]

\* refreshAccessToken: the token it returns and whether the request was
\* sent.  dateNow is Date.now() when the response has been read.
RefreshAccessToken(token, outcome, dateNow) ==
  IF token.refreshToken = Undefined
  THEN [sent |-> FALSE, token |-> [token EXCEPT !.error = "RefreshAccessTokenError"]]
  ELSE IF outcome.kind # "ok"
  THEN [sent |-> TRUE, token |-> [token EXCEPT !.error = "RefreshAccessTokenError"]]
  ELSE [sent |-> TRUE,
        token |-> [token EXCEPT
                     !.accessToken = outcome.access_token,
                     !.accessTokenExpires = dateNow + outcome.expires_in * 1000,
                     !.refreshToken = IF outcome.refresh_token # Undefined
                                      THEN outcome.refresh_token ELSE @]]

\* callbacks.jwt on a later invocation (no account): dateNow is Date.now() at
\* line 258, later the one inside refreshAccessToken.
JwtLater(token, outcome, dateNow, later) ==
  IF NotExpired(token, dateNow) THEN [sent |-> FALSE, token |-> token]
  ELSE IF ShouldRefresh(token) THEN RefreshAccessToken(token, outcome, later)
  ELSE [sent |-> FALSE, token |-> token]

\* callbacks.session
SessionOf(token) ==
  [accessToken |-> IF token.accessToken # Undefined THEN token.accessToken ELSE "",
   error |-> token.error,
   user |-> token.user]

Usernames == {Undefined, "demo", "Demo", "demo123", ""}
Passwords == {Undefined, "demo123", "demo", "Demo123", "demo123 "}
CredentialSets ==
  {NoObject} \cup {[username |-> u] : u \in Usernames \ {Undefined}}
    \cup {[password |-> p] : p \in Passwords \ {Undefined}}
    \cup {[username |-> u, password |-> p] :
            u \in Usernames \ {Undefined}, p \in Passwords \ {Undefined}}

Profiles == {NoObject, [name |-> "p"], [name |-> "p", email |-> "p@example.com"]}

\* The accounts the Spotify provider hands to the callbacks at time dateNow:
\* with or without a refresh token, the expiry (seconds) absent, already
\* reached or ahead.
SpotifyAccounts(dateNow) ==
  [provider : {"spotify"}, access_token : {"at0"}, refresh_token : {Undefined, "rt0"},
   expires_at : {0, dateNow \div 1000, dateNow \div 1000 + 1}]

\* The account of a credentials sign-in carries no tokens.
DemoAccount ==
  [provider |-> "demo-login", access_token |-> Undefined, refresh_token |-> Undefined,
   expires_at |-> 0]

SpotifyUser == [id |-> "spotify-user"]

AuthInit ==
  /\ now = 1000
  /\ authorized = NoCall
  /\ signedIn = NoCall
  /\ cookie = NoToken
  /\ provider = Undefined
  /\ refreshSent = FALSE
  /\ jwtCall = NoCall
  /\ session = NoCall

\* Only the record of the operation that ran last is kept.
\*
\* A sign-in with the demo credentials provider: authorize, then (with a
\* user) the signIn callback, then (when allowed) the jwt callback.
DemoLogin(credentials, profile) ==
  LET user == Authorize(credentials)
      allow == SignIn("demo-login", profile)
  IN /\ authorized' = [called |-> TRUE, credentials |-> credentials, user |-> user]
     /\ IF user = NullUser
        THEN /\ signedIn' = NoCall
             /\ jwtCall' = NoCall
             /\ UNCHANGED <<cookie, provider, refreshSent>>
        ELSE /\ signedIn' = [called |-> TRUE, provider |-> "demo-login",
                             profile |-> profile, result |-> allow]
             /\ IF allow.allowed
                THEN /\ cookie' = JwtInitial(DemoAccount, user)
                     /\ provider' = "demo-login"
                     /\ refreshSent' = FALSE
                     /\ jwtCall' = [called |-> TRUE, initial |-> TRUE]
                ELSE /\ jwtCall' = NoCall
                     /\ UNCHANGED <<cookie, provider, refreshSent>>
     /\ session' = NoCall
     /\ UNCHANGED <<authOthers, now>>

\* A sign-in with Spotify: the signIn callback, then the jwt callback.
SpotifyLogin(account, profile) ==
  LET allow == SignIn("spotify", profile)
  IN /\ signedIn' = [called |-> TRUE, provider |-> "spotify",
                     profile |-> profile, result |-> allow]
     /\ IF allow.allowed
        THEN /\ cookie' = JwtInitial(account, SpotifyUser)
             /\ provider' = "spotify"
             /\ refreshSent' = FALSE
             /\ jwtCall' = [called |-> TRUE, initial |-> TRUE]
        ELSE /\ jwtCall' = NoCall
             /\ UNCHANGED <<cookie, provider, refreshSent>>
     /\ authorized' = NoCall
     /\ session' = NoCall
     /\ UNCHANGED <<authOthers, now>>

\* A later invocation of the jwt callback, `wait` after the last step, the
\* refresh (when made) taking `took`.
Jwt(wait, took, outcome) ==
  /\ cookie # NoToken
  /\ now + wait + took <= MaxTime * 1000
  /\ LET res == JwtLater(cookie, outcome, now + wait, now + wait + took)
     IN /\ cookie' = res.token
        /\ refreshSent' = (refreshSent \/ res.sent)
        /\ jwtCall' = [called |-> TRUE, initial |-> FALSE, before |-> cookie,
                       at |-> now + wait, sent |-> res.sent,
                       outcome |-> IF res.sent THEN outcome ELSE [kind |-> "none"]]
        /\ now' = IF res.sent THEN now + wait + took ELSE now + wait
  /\ authorized' = NoCall
  /\ signedIn' = NoCall
  /\ session' = NoCall
  /\ UNCHANGED <<authOthers, provider>>

\* The session callback derives the session from the token.
Session ==
  /\ cookie # NoToken
  /\ session' = [called |-> TRUE, session |-> SessionOf(cookie)]
  /\ authorized' = NoCall
  /\ signedIn' = NoCall
  /\ UNCHANGED <<authOthers, now, cookie, provider, refreshSent, jwtCall>>

Waits == {0, 1000, 2000}
Tooks == {0, 1000}

AuthNext ==
  \/ \E credentials \in CredentialSets, profile \in Profiles :
       DemoLogin(credentials, profile)
  \/ \E account \in SpotifyAccounts(now), profile \in Profiles :
       SpotifyLogin(account, profile)
  \/ \E wait \in Waits, took \in Tooks, outcome \in RefreshOutcomes :
       Jwt(wait, took, outcome)
  \/ Session

(***************************************************************************)
(* Numbers.  A JavaScript number is a finite value, NaN or an infinity.    *)
(* Finite values are kept in fixed point: ratios, features, moods and      *)
(* distances in thousandths, weighted scores in ten-thousandths (a value   *)
(* in thousandths times a weight in tenths).  Rounding of IEEE doubles is  *)
(* not modelled.                                                           *)
(***************************************************************************)
Num(v) == [kind |-> "num", v |-> v]
NaN == [kind |-> "nan", v |-> 0]
Infinity == [kind |-> "inf", v |-> 1]

Min(a, b) == IF a <= b THEN a ELSE b
Max(a, b) == IF a >= b THEN a ELSE b
Abs(a) == IF a >= 0 THEN a ELSE -a

\* a / b for two counts, in thousandths: 0 / 0 is NaN, n / 0 is Infinity.
Divide(a, b) ==
  IF b = 0 THEN (IF a = 0 THEN NaN ELSE Infinity)
  ELSE Num((a * 1000) \div b)

\* x * w for a weight w in tenths.
Times(x, w) ==
  IF x.kind = "num" THEN Num(x.v * w)
  ELSE IF x.kind = "inf" /\ w = 0 THEN NaN ELSE x

\* x + y
Plus(x, y) ==
  IF x.kind = "nan" \/ y.kind = "nan" THEN NaN
  ELSE IF x.kind = "inf" \/ y.kind = "inf" THEN Infinity
  ELSE Num(x.v + y.v)

\* Math.sqrt on a square of thousandths, rounded down: the r in lo..hi with
\* r * r <= x < (r + 1) * (r + 1).
RECURSIVE SqrtBetween(_, _, _)
SqrtBetween(x, lo, hi) ==
  IF lo >= hi THEN lo
  ELSE LET mid == (lo + hi + 1) \div 2
       IN IF mid * mid <= x THEN SqrtBetween(x, mid, hi)
          ELSE SqrtBetween(x, lo, mid - 1)

Sqrt(x) == SqrtBetween(x, 0, 2000)

(***************************************************************************)
(* utils/playlistAnalyzer.ts                                               *)
(***************************************************************************)
FeatureKeys == {"danceability", "energy", "valence", "acousticness"}
MoodKeys == {"happy", "energetic", "relaxed", "melancholic"}

\* The mood profile analyzePlaylist derives from the averaged features.
MoodProfile(averageFeatures) ==
  [happy |-> (averageFeatures.valence + averageFeatures.energy) \div 2,
   energetic |-> averageFeatures.energy,
   relaxed |-> (averageFeatures.acousticness + (1000 - averageFeatures.energy)) \div 2,
   melancholic |->
     (1000 - averageFeatures.valence + averageFeatures.acousticness) \div 2]

RECURSIVE SumOver(_, _)
SumOver(f, keys) ==
  IF keys = {} THEN 0
  ELSE LET k == CHOOSE k \in keys : TRUE
       IN f[k] + SumOver(f, keys \ {k})

\* calculateMoodDistance: the root of the mean squared difference.
CalculateMoodDistance(mood1, mood2) ==
  LET distances == [key \in MoodKeys |-> (mood1[key] - mood2[key]) * (mood1[key] - mood2[key])]
  IN Sqrt(SumOver(distances, MoodKeys) \div Cardinality(MoodKeys))

\* calculateFeatureDistance: the same over the four features.
CalculateFeatureDistance(features1, features2) ==
  LET distances ==
        [key \in FeatureKeys |->
           (features1[key] - features2[key]) * (features1[key] - features2[key])]
  IN Sqrt(SumOver(distances, FeatureKeys) \div Cardinality(FeatureKeys))

\* profile1.dominantGenres.filter(genre => profile2.dominantGenres.includes(genre)).length
CommonGenres(genres1, genres2) ==
  Cardinality({i \in 1..Len(genres1) : \E j \in 1..Len(genres2) : genres2[j] = genres1[i]})

\* calculatePlaylistCompatibility, in ten-thousandths.
CalculatePlaylistCompatibility(profile1, profile2) ==
  LET commonGenres == CommonGenres(profile1.dominantGenres, profile2.dominantGenres)
      genreScore ==
        Times(Divide(commonGenres,
                     Min(Len(profile1.dominantGenres), Len(profile2.dominantGenres))), 3)
      moodScore ==
        Times(Num(1000 - CalculateMoodDistance(profile1.moodProfile, profile2.moodProfile)), 4)
      featureScore ==
        Times(Num(1000 - CalculateFeatureDistance(profile1.averageFeatures,
                                                  profile2.averageFeatures)), 2)
      diversityScore == Times(Num(1000 - Abs(profile1.diversity - profile2.diversity)), 1)
  IN Plus(Plus(Plus(genreScore, moodScore), featureScore), diversityScore)

\* Sequences without repetition over a set, of at most n elements:
\* dominantGenres are the keys of an object.
RECURSIVE DistinctSeqs(_, _)
DistinctSeqs(S, n) ==
  IF n = 0 THEN {<<>>}
  ELSE LET shorter == DistinctSeqs(S, n - 1)
       IN shorter \cup
            {Append(p[1], p[2]) :
               p \in {q \in shorter \X S :
                        /\ Len(q[1]) = n - 1
                        /\ \A i \in 1..Len(q[1]) : q[1][i] # q[2]}}

Genres == {"rock", "pop"}
FeatureValues == {0, 500, 1000}
DiversityValues == {0, 1000}

\* The profiles analyzePlaylist can return for features and a diversity on
\* these grids.
PlaylistProfiles ==
  {[dominantGenres |-> g, averageFeatures |-> f, moodProfile |-> MoodProfile(f),
    diversity |-> d] :
     g \in DistinctSeqs(Genres, MaxGenres), f \in [FeatureKeys -> FeatureValues],
     d \in DiversityValues}

NotComputed == [computed |-> FALSE]

CompatInit ==
  /\ playlist1 \in PlaylistProfiles
  /\ playlist2 \in PlaylistProfiles
  /\ compat = NotComputed

\* calculatePlaylistCompatibility is called on the two profiles.
Compatibility ==
  /\ compat = NotComputed
  /\ compat' = [computed |-> TRUE,
                 value |-> CalculatePlaylistCompatibility(playlist1, playlist2)]
  /\ UNCHANGED <<compatOthers, playlist1, playlist2>>

CompatNext == Compatibility

(***************************************************************************)
(* utils/matchingAlgorithm.ts: MatchingAlgorithm                           *)
(***************************************************************************)
\* new Set(list.map(...)): the set of the ids of a list.
IdSet(list) == {list[i] : i \in 1..Len(list)}

\* An overlap whose denominator is the size of the first set.
OverlapOfFirst(ids1, ids2) ==
  LET common == {id \in IdSet(ids1) : id \in IdSet(ids2)}
  IN Divide(Cardinality(common), Cardinality(IdSet(ids1)))

\* calculateRecentTrackScore, calculateArtistScore, calculateGenreScore: the
\* three have the same body, commonIds.size / Math.max(ids1.size, ids2.size).
Overlap(ids1, ids2) ==
  LET common == {id \in IdSet(ids1) : id \in IdSet(ids2)}
  IN Divide(Cardinality(common), Max(Cardinality(IdSet(ids1)), Cardinality(IdSet(ids2))))

\* MatchingAlgorithm.calculateMatchScore, in ten-thousandths: the weights
\* are 0.6, 0.3 and 0.1.
CalculateMatchScoreOf(user1, user2) ==
  Plus(Plus(Times(Overlap(user1.recentTracks, user2.recentTracks), 6),
            Times(Overlap(user1.topArtists, user2.topArtists), 3)),
       Times(Overlap(user1.topGenres, user2.topGenres), 1))

RECURSIVE SeqsUpTo(_, _)
SeqsUpTo(S, n) ==
  IF n = 0 THEN {<<>>}
  ELSE LET shorter == SeqsUpTo(S, n - 1)
       IN shorter \cup {Append(s, x) : s \in {t \in shorter : Len(t) = n - 1}, x \in S}

TrackIds == {"t1", "t2"}
ArtistLists == {<<>>, <<"a1">>, <<"a2">>, <<"a1", "a2">>}
GenreLists == {<<>>, <<"rock">>, <<"rock", "pop">>}

\* The ids of a UserMusicProfile the algorithm reads.
UserMusicProfiles ==
  [recentTracks : SeqsUpTo(TrackIds, MaxTracks), topArtists : ArtistLists,
   topGenres : GenreLists]

ScoreInit ==
  /\ listener1 \in UserMusicProfiles
  /\ listener2 \in UserMusicProfiles
  /\ matchScore = NotComputed

\* calculateMatchScore is called on the pair in both orders.
MatchScore ==
  /\ matchScore = NotComputed
  /\ matchScore' = [computed |-> TRUE,
                     forward |-> CalculateMatchScoreOf(listener1, listener2),
                     backward |-> CalculateMatchScoreOf(listener2, listener1)]
  /\ UNCHANGED <<scoreOthers, listener1, listener2>>

ScoreNext == MatchScore

(***************************************************************************)
(* utils/playlistRecommendation.ts: ListeningHistoryMatcher                *)
(*                                                                         *)
(* A ListeningHistory entry keeps its age, Date.now() - timestamp, in      *)
(* thousandths of RECENCY_WINDOW; weights and component scores are in      *)
(* thousandths, the weighted total in ten-thousandths.                     *)
(***************************************************************************)
\* Math.exp(x / 1000) in thousandths, by the first terms of its series.
RECURSIVE ExpSeries(_, _, _, _)
ExpSeries(x, k, term, left) ==
  IF left = 0 THEN 0
  ELSE term + ExpSeries(x, k + 1, (term * x) \div (1000 * k), left - 1)

Exp(x) == ExpSeries(x, 1, 1000, 10)

\* Math.min(1, x)
MinOne(x) ==
  IF x.kind = "nan" THEN NaN
  ELSE IF x.kind = "inf" THEN Num(1000)
  ELSE Num(Min(1000, x.v))

\* x / n for a count n > 0
Over(x, n) == IF x.kind = "num" THEN Num(x.v \div n) ELSE x

\* userHistory.find(h => h.trackId === trackId): the first such entry.
FindHistory(userHistory, trackId) ==
  userHistory[CHOOSE i \in 1..Len(userHistory) :
                /\ userHistory[i].trackId = trackId
                /\ \A j \in 1..(i - 1) : userHistory[j].trackId # trackId]

RECURSIVE WeightedScore(_, _)
WeightedScore(userHistory, overlap) ==
  IF overlap = {} THEN 0
  ELSE LET trackId == CHOOSE t \in overlap : TRUE
           history == FindHistory(userHistory, trackId)
           recency == Exp(-history.age)
       IN (recency * history.playCount) \div 10
            + WeightedScore(userHistory, overlap \ {trackId})

\* calculateRecentTrackOverlap
CalculateRecentTrackOverlap(userHistory, matchPlaylist) ==
  LET recentTrackIds == {userHistory[i].trackId : i \in 1..Len(userHistory)}
      matchTrackIds == IdSet(matchPlaylist)
      overlap == {x \in recentTrackIds : x \in matchTrackIds}
  IN MinOne(Num(WeightedScore(userHistory, overlap) \div 5))

\* new Map(entries).has(key)
MapHas(entries, key) == \E i \in 1..Len(entries) : entries[i].id = key

\* new Map(entries).get(key): a later entry replaces an earlier one.
MapGet(entries, key) ==
  entries[CHOOSE i \in 1..Len(entries) :
            /\ entries[i].id = key
            /\ \A j \in (i + 1)..Len(entries) : entries[j].id # key].weight

RECURSIVE Similarity(_, _, _)
Similarity(userEntries, matchEntries, i) ==
  IF i > Len(userEntries) THEN 0
  ELSE (IF MapHas(matchEntries, userEntries[i].id)
        THEN (userEntries[i].weight * MapGet(matchEntries, userEntries[i].id)) \div 1000
        ELSE 0)
       + Similarity(userEntries, matchEntries, i + 1)

\* calculateArtistSimilarity
CalculateArtistSimilarity(userArtists, matchArtists) ==
  MinOne(Num(Similarity(userArtists, matchArtists, 1)))

\* calculateGenreSimilarity: the same over the genre names.
CalculateGenreSimilarity(userGenres, matchGenres) ==
  MinOne(Num(Similarity(userGenres, matchGenres, 1)))

Patterns == <<"morningTracks", "afternoonTracks", "eveningTracks", "weekendTracks">>

\* overlap.size / Math.max(userTracks.size, matchTracks.size)
PatternOverlap(userTracks, matchTracks) ==
  Divide(Cardinality({x \in userTracks : x \in matchTracks}),
         Max(Cardinality(userTracks), Cardinality(matchTracks)))

RECURSIVE TotalMatch(_, _, _)
TotalMatch(userPatterns, matchPatterns, i) ==
  IF i = 0 THEN Num(0)
  ELSE Plus(TotalMatch(userPatterns, matchPatterns, i - 1),
            PatternOverlap(IdSet(userPatterns[Patterns[i]]),
                           IdSet(matchPatterns[Patterns[i]])))

\* calculateListeningPatternMatch
CalculateListeningPatternMatch(userPatterns, matchPatterns) ==
  Over(TotalMatch(userPatterns, matchPatterns, Len(Patterns)), Len(Patterns))

\* The weights of ListeningHistoryMatcher.calculateMatchScore, in tenths.
HistoryWeights ==
  [recentTrackOverlap |-> 4, artistSimilarity |-> 3, genreSimilarity |-> 2,
   listeningPatternMatch |-> 1]

\* ListeningHistoryMatcher.calculateMatchScore: the four component scores
\* and their weighted sum, added in the order of the weights' keys.
HistoryMatchScore(userProfile, potentialMatch) ==
  LET scores ==
        [recentTrackOverlap |->
           CalculateRecentTrackOverlap(userProfile.recentTracks, potentialMatch.playlist),
         artistSimilarity |->
           CalculateArtistSimilarity(userProfile.topArtists,
                                     potentialMatch.profile.topArtists),
         genreSimilarity |->
           CalculateGenreSimilarity(userProfile.topGenres, potentialMatch.profile.topGenres),
         listeningPatternMatch |->
           CalculateListeningPatternMatch(userProfile.listeningPatterns,
                                          potentialMatch.profile.listeningPatterns)]
      W == HistoryWeights
  IN [scores |-> scores,
      total |->
        Plus(Plus(Plus(Plus(Num(0),
                            Times(scores.recentTrackOverlap, W.recentTrackOverlap)),
                       Times(scores.artistSimilarity, W.artistSimilarity)),
                  Times(scores.genreSimilarity, W.genreSimilarity)),
             Times(scores.listeningPatternMatch, W.listeningPatternMatch))]

\* ListeningHistory entries: a heavily played recent track, an old one, one
\* stamped ahead of the clock, and one never played.
HistoryEntries ==
  {[trackId |-> "t1", age |-> 0, playCount |-> 60],
   [trackId |-> "t1", age |-> 1000, playCount |-> 10],
   [trackId |-> "t2", age |-> -1000, playCount |-> 50],
   [trackId |-> "t2", age |-> 0, playCount |-> 0]}

Playlists == {<<>>, <<"t1">>, <<"t1", "t2">>}

WeightedArtists ==
  {<<>>, <<[id |-> "a1", weight |-> 1000]>>,
   <<[id |-> "a1", weight |-> 500], [id |-> "a2", weight |-> 1000]>>}

\* Genres are keyed by name; the model keeps the name in the field id.
WeightedGenres == {<<>>, <<[id |-> "rock", weight |-> 1000]>>}

ListeningPatterns ==
  [morningTracks : {<<>>, <<"t1">>, <<"t1", "t2">>},
   afternoonTracks : {<<>>, <<"t2">>},
   eveningTracks : {<<"t1">>},
   weekendTracks : {<<"t2">>}]

HistoryInit ==
  /\ listener \in [recentTracks : SeqsUpTo(HistoryEntries, MaxTracks),
                    topArtists : WeightedArtists, topGenres : WeightedGenres,
                    listeningPatterns : ListeningPatterns]
  /\ candidate \in [playlist : Playlists,
                     profile : [topArtists : WeightedArtists, topGenres : WeightedGenres,
                                listeningPatterns : ListeningPatterns]]
  /\ historyScore = NotComputed

\* ListeningHistoryMatcher.calculateMatchScore is called.
HistoryMatch ==
  /\ historyScore = NotComputed
  /\ historyScore' = [computed |-> TRUE, value |-> HistoryMatchScore(listener, candidate)]
  /\ UNCHANGED <<historyOthers, listener, candidate>>

HistoryNext == HistoryMatch

(***************************************************************************)
(* lib/database.ts and pages/api/match/index.ts: connectToDatabase         *)
(*                                                                         *)
(* A client is identified by the number of the MongoClient.connect call    *)
(* that opened it, the db of client n by n as well; 0 stands for null.     *)
(* Each call runs up to its next await in one step.                        *)
(***************************************************************************)
Null == 0

DbModules == {"lib/database.ts", "pages/api/match/index.ts"}

\* Only lib/database.ts creates indexes between connecting and caching.
CreatesIndexes(module) == module = "lib/database.ts"

\* client.db(MONGODB_DB)
DbOf(client) == client

IdleCall ==
  [pc |-> "idle", client |-> Null, db |-> Null, connected |-> FALSE, indexed |-> FALSE,
   after |-> {}, cacheAtStart |-> <<Null, Null>>, cacheAtEnd |-> <<Null, Null>>]

\* The clients the calls that have resolved so far have returned.
Returned(calls) == {calls[c].client : c \in {d \in DOMAIN calls : calls[d].pc = "resolved"}}

\* A cache test that never finds the connection.
CacheMiss(client, db) == FALSE

\* if (cachedClient && cachedDb)
CacheHit(client, db) == client # Null /\ db # Null

DbInit ==
  /\ dbModule \in DbModules
  /\ dbCachedClient = Null
  /\ dbCachedDb = Null
  /\ dbCalls = [c \in 1..MaxCalls |-> IdleCall]
  /\ dbConnects = 0
  /\ dbIndexes = 0

\* connectToDatabase() is called: it returns the cached pair, or invokes
\* MongoClient.connect and awaits it.
Connect(c) ==
  /\ dbCalls[c].pc = "idle"
  /\ LET started == [dbCalls[c] EXCEPT !.after = Returned(dbCalls),
                                       !.cacheAtStart = <<dbCachedClient, dbCachedDb>>]
     IN IF CacheHit(dbCachedClient, dbCachedDb)
        THEN /\ dbCalls' = [dbCalls EXCEPT ![c] =
                              [started EXCEPT !.pc = "resolved", !.client = dbCachedClient,
                                              !.db = dbCachedDb,
                                              !.cacheAtEnd = <<dbCachedClient, dbCachedDb>>]]
             /\ UNCHANGED dbConnects
        ELSE /\ dbCalls' = [dbCalls EXCEPT ![c] =
                              [started EXCEPT !.pc = "connecting", !.connected = TRUE]]
             /\ dbConnects' = dbConnects + 1
  /\ UNCHANGED <<dbOthers, dbModule, dbCachedClient, dbCachedDb, dbIndexes>>

\* MongoClient.connect resolves with a new client: lib/database.ts issues its
\* createIndex calls and awaits them, pages/api/match caches and returns.
ConnectResolves(c) ==
  /\ dbCalls[c].pc = "connecting"
  /\ LET client == 1 + Cardinality({d \in 1..MaxCalls : dbCalls[d].client # Null
                                                         /\ dbCalls[d].connected})
         db == DbOf(client)
     IN IF CreatesIndexes(dbModule)
        THEN /\ dbCalls' = [dbCalls EXCEPT ![c].pc = "indexing", ![c].client = client,
                                           ![c].db = db, ![c].indexed = TRUE]
             /\ dbIndexes' = dbIndexes + 1
             /\ UNCHANGED <<dbCachedClient, dbCachedDb>>
        ELSE /\ dbCachedClient' = client
             /\ dbCachedDb' = db
             /\ dbCalls' = [dbCalls EXCEPT ![c].pc = "resolved", ![c].client = client,
                                           ![c].db = db, ![c].cacheAtEnd = <<client, db>>]
             /\ UNCHANGED dbIndexes
  /\ UNCHANGED <<dbOthers, dbModule, dbConnects>>

\* MongoClient.connect rejects, and with it the call.
ConnectRejects(c) ==
  /\ dbCalls[c].pc = "connecting"
  /\ dbCalls' = [dbCalls EXCEPT ![c].pc = "rejected",
                                ![c].cacheAtEnd = <<dbCachedClient, dbCachedDb>>]
  /\ UNCHANGED <<dbOthers, dbModule, dbCachedClient, dbCachedDb, dbConnects, dbIndexes>>

\* Promise.all of the createIndex calls resolves: the pair is cached and
\* returned.
IndexesResolve(c) ==
  /\ dbCalls[c].pc = "indexing"
  /\ dbCachedClient' = dbCalls[c].client
  /\ dbCachedDb' = dbCalls[c].db
  /\ dbCalls' = [dbCalls EXCEPT ![c].pc = "resolved",
                                ![c].cacheAtEnd = <<dbCalls[c].client, dbCalls[c].db>>]
  /\ UNCHANGED <<dbOthers, dbModule, dbConnects, dbIndexes>>

\* One of the createIndex calls rejects, and with it the call.
IndexesReject(c) ==
  /\ dbCalls[c].pc = "indexing"
  /\ dbCalls' = [dbCalls EXCEPT ![c].pc = "rejected",
                                ![c].cacheAtEnd = <<dbCachedClient, dbCachedDb>>]
  /\ UNCHANGED <<dbOthers, dbModule, dbCachedClient, dbCachedDb, dbConnects, dbIndexes>>

DbNext ==
  \E c \in 1..MaxCalls :
    \/ Connect(c)
    \/ ConnectResolves(c)
    \/ ConnectRejects(c)
    \/ IndexesResolve(c)
    \/ IndexesReject(c)

(***************************************************************************)
(* utils/playlistRecommendation.ts: PlaylistRecommender                    *)
(*                                                                         *)
(* A track is its id and its artists; an artist is its id and its genres,  *)
(* which the Spotify track object may leave out (artist.genres || []).     *)
(* The scores of rankTracks come from the tensorflow model, so the ranked  *)
(* list is any order of the available tracks.                              *)
(***************************************************************************)
MaxDiversified == 10
GenreLimit == 3
ArtistLimit == 2

Artist(id, genres) == [id |-> id, hasGenres |-> TRUE, genres |-> genres]
BareArtist(id) == [id |-> id, hasGenres |-> FALSE, genres |-> <<>>]
RankedTrack(id, artists) == [id |-> id, artists |-> artists]

\* track.artists.flatMap(artist => artist.genres || [])
RECURSIVE FlatMapGenres(_)
FlatMapGenres(artists) ==
  IF artists = <<>> THEN <<>>
  ELSE (IF Head(artists).hasGenres THEN Head(artists).genres ELSE <<>>)
         \o FlatMapGenres(Tail(artists))

\* track.artists.map(artist => artist.id)
ArtistIds(artists) == [i \in 1..Len(artists) |-> artists[i].id]

\* counts.get(key) || 0
CountOf(counts, key) == IF key \in DOMAIN counts THEN counts[key] ELSE 0

\* keys.forEach(key => counts.set(key, (counts.get(key) || 0) + 1))
RECURSIVE CountEach(_, _)
CountEach(counts, keys) ==
  IF keys = <<>> THEN counts
  ELSE CountEach([k \in DOMAIN counts \cup {Head(keys)} |->
                    IF k = Head(keys) THEN CountOf(counts, k) + 1 ELSE counts[k]],
                 Tail(keys))

\* A genre test that lets a genre in once more than the code does.
GenreOverrepresentedLate(genres, genreCounts) ==
  \E i \in 1..Len(genres) : CountOf(genreCounts, genres[i]) > GenreLimit

\* genres.some(genre => (genreCounts.get(genre) || 0) >= 3)
GenreOverrepresented(genres, genreCounts) ==
  \E i \in 1..Len(genres) : CountOf(genreCounts, genres[i]) >= GenreLimit

\* artists.some(artist => (artistCounts.get(artist) || 0) >= 2)
ArtistOverrepresented(artists, artistCounts) ==
  \E i \in 1..Len(artists) : CountOf(artistCounts, artists[i]) >= ArtistLimit

\* The for loop from the track at position i on.
RECURSIVE DiversifyFrom(_, _, _, _, _)
DiversifyFrom(recommendations, i, diversified, genreCounts, artistCounts) ==
  IF i > Len(recommendations) THEN diversified
  ELSE
    LET track == recommendations[i]
        genres == FlatMapGenres(track.artists)
        artists == ArtistIds(track.artists)
        pushed == /\ ~GenreOverrepresented(genres, genreCounts)
                  /\ ~ArtistOverrepresented(artists, artistCounts)
        pushedTo == IF pushed THEN Append(diversified, track) ELSE diversified
    IN  IF Len(pushedTo) >= MaxDiversified THEN pushedTo
        ELSE DiversifyFrom(recommendations, i + 1, pushedTo,
                           IF pushed THEN CountEach(genreCounts, genres) ELSE genreCounts,
                           IF pushed THEN CountEach(artistCounts, artists) ELSE artistCounts)

DiversifyRecommendations(recommendations) ==
  DiversifyFrom(recommendations, 1, <<>>, <<>>, <<>>)

\* The tracks that may lead the ranking: one or two artists, a genre listed
\* by both artists of a track, an artist without genres, a track without
\* artists.
LeadingTracks ==
  { RankedTrack("p1", <<Artist("a1", <<"rock", "pop">>)>>),
    RankedTrack("p2", <<Artist("a1", <<"rock", "pop">>), Artist("a2", <<"rock">>)>>),
    RankedTrack("p3", <<BareArtist("a3")>>),
    RankedTrack("p4", <<Artist("a2", <<"rock">>)>>),
    RankedTrack("p5", <<>>) }

\* The rest of the catalogue, longer than the result may get.
LongTail ==
  << RankedTrack("q01", <<Artist("a1", <<"rock", "pop">>)>>),
     RankedTrack("q02", <<Artist("b1", <<"jazz">>)>>),
     RankedTrack("q03", <<Artist("b1", <<"jazz">>)>>),
     RankedTrack("q04", <<Artist("b1", <<"jazz">>)>>),
     RankedTrack("q05", <<Artist("b2", <<"jazz">>)>>),
     RankedTrack("q06", <<Artist("b3", <<"jazz">>)>>),
     RankedTrack("q07", <<Artist("b3", <<"soul">>)>>),
     RankedTrack("q08", <<Artist("b4", <<"soul">>), Artist("a3", <<>>)>>),
     RankedTrack("q09", <<BareArtist("b4")>>),
     RankedTrack("q10", <<BareArtist("b5")>>),
     RankedTrack("q11", <<BareArtist("b5")>>),
     RankedTrack("q12", <<BareArtist("b6")>>),
     RankedTrack("q13", <<BareArtist("b6")>>),
     RankedTrack("q14", <<BareArtist("b7")>>),
     RankedTrack("q15", <<BareArtist("b7")>>) >>

TailLengths == {0, 7, Len(LongTail)}

RankedLists ==
  { lead \o SubSeq(LongTail, 1, n) :
      lead \in UNION {[1..k -> LeadingTracks] : k \in 0..MaxRanked},
      n \in TailLengths }

RecommendInit ==
  /\ rankedTracks \in RankedLists
  /\ diversifiedTracks = NotComputed

\* generateRecommendations: the ranked tracks go through
\* diversifyRecommendations.
GenerateRecommendations ==
  /\ diversifiedTracks = NotComputed
  /\ diversifiedTracks' =
       [computed |-> TRUE, tracks |-> DiversifyRecommendations(rankedTracks)]
  /\ UNCHANGED <<recommendOthers, rankedTracks>>

RecommendNext == GenerateRecommendations

(***************************************************************************)
(* Specifications, one per subsystem.                                      *)
(***************************************************************************)
MomentIdle ==
  /\ spotifyApi = Undefined /\ clientPromise = "pending"
  /\ momentReq = <<>> /\ musicMoments = <<>> /\ momentNow = 0
  /\ momentRes = NoResponse

MatchIdle ==
  /\ users = 0 /\ cachedClient = Undefined /\ matchReq = NoCall
  /\ matchRes = NoCall /\ svc = NoCall

AuthIdle ==
  /\ now = 0 /\ authorized = NoCall /\ signedIn = NoCall /\ cookie = NoToken
  /\ provider = Undefined /\ refreshSent = FALSE /\ jwtCall = NoCall
  /\ session = NoCall

CompatIdle == playlist1 = <<>> /\ playlist2 = <<>> /\ compat = NotComputed

ScoreIdle == listener1 = <<>> /\ listener2 = <<>> /\ matchScore = NotComputed

HistoryIdle == listener = <<>> /\ candidate = <<>> /\ historyScore = NotComputed

DbIdle ==
  /\ dbModule = "lib/database.ts"
  /\ dbCachedClient = Null
  /\ dbCachedDb = Null
  /\ dbCalls = <<>>
  /\ dbConnects = 0
  /\ dbIndexes = 0

RecommendIdle == rankedTracks = <<>> /\ diversifiedTracks = NotComputed

MomentSpecInit == MomentInit /\ MatchIdle /\ AuthIdle /\ CompatIdle /\ ScoreIdle /\ HistoryIdle
  /\ DbIdle /\ RecommendIdle
MomentSpec == MomentSpecInit /\ [][MomentNext]_vars
MomentQuerySpec == MomentSpecInit /\ [][MomentQueryNext]_vars

MatchSpecInit == MatchInit /\ MomentIdle /\ AuthIdle /\ CompatIdle /\ ScoreIdle /\ HistoryIdle
  /\ DbIdle /\ RecommendIdle
MatchSpec == MatchSpecInit /\ [][MatchNext]_vars

AuthSpecInit == AuthInit /\ MomentIdle /\ MatchIdle /\ CompatIdle /\ ScoreIdle /\ HistoryIdle
  /\ DbIdle /\ RecommendIdle
AuthSpec == AuthSpecInit /\ [][AuthNext]_vars

CompatSpecInit == CompatInit /\ MomentIdle /\ MatchIdle /\ AuthIdle /\ ScoreIdle /\ HistoryIdle
  /\ DbIdle /\ RecommendIdle
CompatSpec == CompatSpecInit /\ [][CompatNext]_vars

ScoreSpecInit == ScoreInit /\ MomentIdle /\ MatchIdle /\ AuthIdle /\ CompatIdle /\ HistoryIdle
  /\ DbIdle /\ RecommendIdle
ScoreSpec == ScoreSpecInit /\ [][ScoreNext]_vars

HistorySpecInit ==
  HistoryInit /\ MomentIdle /\ MatchIdle /\ AuthIdle /\ CompatIdle /\ ScoreIdle /\ DbIdle
  /\ RecommendIdle
HistorySpec == HistorySpecInit /\ [][HistoryNext]_vars

DbSpecInit ==
  DbInit /\ MomentIdle /\ MatchIdle /\ AuthIdle /\ CompatIdle /\ ScoreIdle /\ HistoryIdle
  /\ RecommendIdle
DbSpec == DbSpecInit /\ [][DbNext]_vars

RecommendSpecInit ==
  RecommendInit /\ MomentIdle /\ MatchIdle /\ AuthIdle /\ CompatIdle /\ ScoreIdle
  /\ HistoryIdle /\ DbIdle
RecommendSpec == RecommendSpecInit /\ [][RecommendNext]_vars

(***************************************************************************)
(* Claims about /api/moments/current (MomentSpec).                         *)
(***************************************************************************)
\* The token a request's getMyCurrentPlayingTrack call was made with is the
\* access token of the request's own session (or none, when the session has
\* none).
OwnTokenUsed(req) ==
  req.usedToken # Undefined => req.usedToken = AccessTokenOf(req.session)

\* C1: under every interleaving of /api/moments/current requests the Spotify
\* call getMyCurrentPlayingTrack of a request uses the access token of that
\* request's own session, and the track stored under a user id is never
\* another user's track.
C1_OwnSessionToken ==
  /\ \A r \in 1..MaxRequests :
        momentReq[r].pc \in {"playing", "query", "done"} => OwnTokenUsed(momentReq[r])
  /\ \A u \in MomentUsers : musicMoments[u].stored => musicMoments[u].owner = u

\* The moments the $match and $lookup stages of a query by userId at dateNow
\* let through.
Matching(userId, dateNow) ==
  {u \in DOMAIN musicMoments :
     /\ musicMoments[u].stored
     /\ u # userId
     /\ musicMoments[u].timestamp >= dateNow - MomentWindow
     /\ HasUserInfo(u)}

\* C20: a 200 response of /api/moments/current never contains a moment of
\* the requesting session's user, contains only moments stamped within the
\* 15 minutes before the query, is ordered newest first and has at most 20
\* entries; the requester's own moment is written before that query and only
\* when the playing item is a music track, otherwise the stored moment is
\* left unchanged.
C20_OtherUsersRecentMoments ==
  momentRes.answered =>
    LET body == momentRes.body
        upsert == momentRes.upsert
    IN /\ \A i \in 1..Len(body) :
            /\ body[i].userId # momentRes.userId
            /\ body[i].timestamp >= momentRes.queryAt - 1
            /\ body[i].timestamp <= momentRes.queryAt
       /\ \A i, j \in 1..Len(body) : i < j => body[i].timestamp >= body[j].timestamp
       /\ \A i, j \in 1..Len(body) : i # j => body[i].userId # body[j].userId
       /\ Len(body) <= 20
       /\ upsert.upsertAt <= momentRes.queryAt
       /\ upsert.item = "track" =>
            /\ upsert.ownAfter.stored
            /\ upsert.ownAfter.timestamp = upsert.upsertAt
       /\ upsert.item # "track" => upsert.ownAfter = upsert.ownBefore

\* A request that stored its own track has been answered 200 with 20
\* moments of two different ages, while more than 20 moments matched and an
\* older one lay outside the window.
C20_Witness ==
  /\ momentRes.answered
  /\ momentRes.upsert.item = "track"
  /\ musicMoments[momentRes.userId].stored
  /\ Len(momentRes.body) = 20
  /\ momentRes.body[1].timestamp > momentRes.body[20].timestamp
  /\ Cardinality(Matching(momentRes.userId, momentRes.queryAt)) > 20
  /\ \E u \in DOMAIN musicMoments :
       /\ musicMoments[u].stored
       /\ musicMoments[u].timestamp < momentRes.queryAt - MomentWindow

(***************************************************************************)
(* Claims about /api/match and the MatchingService (MatchSpec).            *)
(***************************************************************************)
Answered(status) ==
  /\ matchRes.called
  /\ Len(matchRes.sent) >= 1
  /\ matchRes.sent[1].status = status

\* C2: whenever the /api/match handler answers 200, the returned list is
\* ordered by non-increasing score, has at most 20 candidates, does not
\* contain the requesting user, and each candidate appears once, with the
\* score that was computed for it.
C2_RankedMatches ==
  Answered(200) =>
    LET items == matchRes.sent[1].body.items
        scored == matchRes.scored
    IN /\ \A i \in 1..(Len(items) - 1) : items[i].score >= items[i + 1].score
       /\ Len(items) <= 20
       /\ \A i \in 1..Len(items) : items[i].id # JsonOid(matchRes.userId)
       /\ Len(items) = Len(scored)
       /\ \A i, j \in 1..Len(items) : items[i].id = items[j].id => i = j
       /\ \A i \in 1..Len(items) :
            \E k \in 1..Len(scored) :
              /\ JsonOid(scored[k]._id) = items[i].id
              /\ scored[k].score = items[i].score

\* A 200 answer cut at the limit, with the requesting user among the first
\* documents of a larger collection, whose scores differ and whose order is
\* not the order the documents were found in.
C2_Witness ==
  /\ Answered(200)
  /\ users > MatchLimit + 1
  /\ matchRes.userId <= MatchLimit
  /\ Len(matchRes.sent[1].body.items) = MatchLimit
  /\ \E i \in 1..(MatchLimit - 1) :
        matchRes.sent[1].body.items[i].score > matchRes.sent[1].body.items[i + 1].score
  /\ \E i \in 1..MatchLimit :
        matchRes.sent[1].body.items[i].id # JsonOid(matchRes.scored[i]._id)

FromHandlerOk ==
  /\ svc.called
  /\ svc.fromHandler
  /\ svc.hasSession
  /\ svc.outcome.status = 200

\* C3: when the /api/match handler answers 200 with its payload,
\* getPotentialMatches returns one Match per entry of the payload, with that
\* entry's id and score, and does not fall back to the mock matches.
C3_FrontendConsumesPayload ==
  FromHandlerOk =>
    LET items == svc.outcome.body.items
    IN /\ Len(svc.value) = Len(items)
       /\ \A i \in 1..Len(items) :
            /\ svc.value[i].id = items[i].id
            /\ svc.value[i].matchScore = items[i].score
       /\ svc.value # MockMatches

\* A call of the service fails when there is no session, the fetch fails,
\* the response is not OK or its body cannot be mapped.
ServiceFailure ==
  \/ ~svc.hasSession
  \/ svc.outcome.kind = "networkError"
  \/ svc.outcome.status \notin 200..299
  \/ ~Mappable(svc.outcome.body)

\* C4: getPotentialMatches never rejects; on every failure it resolves to
\* exactly the two mock matches 'match1' and 'match2'; it returns matches
\* derived from the response only with a session and an OK response.
C4_FallbackToMocks ==
  svc.called =>
    /\ svc.settled = "resolved"
    /\ ServiceFailure =>
         /\ svc.value = MockMatches
         /\ Len(svc.value) = 2
         /\ svc.value[1].id = JsonStr("match1")
         /\ svc.value[2].id = JsonStr("match2")
    /\ svc.value # MockMatches =>
         /\ svc.hasSession
         /\ svc.outcome.kind = "response"
         /\ svc.outcome.status \in 200..299

\* A call with a session and an OK response whose body cannot be mapped
\* has resolved to the mocks.
C4_Witness ==
  /\ svc.called
  /\ svc.hasSession
  /\ svc.outcome.kind = "response"
  /\ svc.outcome.status = 200
  /\ ~Mappable(svc.outcome.body)
  /\ svc.settled = "resolved"
  /\ svc.value = MockMatches

UserFound(req) == req.q.kind = "id" /\ req.q.id \in 1..users

\* The status the claim gives an invocation: 405, else 401, else 500 when a
\* database step throws, 404 when the user is not found, otherwise 200.
ClaimedStatus(req) ==
  IF req.method # "GET" THEN 405
  ELSE IF ~req.hasSession THEN 401
  ELSE IF req.fail \in {"connect", "findOne"} THEN 500
  ELSE IF ~UserFound(req) THEN 404
  ELSE IF req.fail = "find" THEN 500
  ELSE 200

\* The same with the one more way into the catch block: a userId that is
\* no ObjectId, read after connecting and before the lookup.
AmendedStatus(req) ==
  IF req.method # "GET" THEN 405
  ELSE IF ~req.hasSession THEN 401
  ELSE IF req.fail = "connect" THEN 500
  ELSE IF req.q.kind = "invalid" THEN 500
  ELSE IF req.fail = "findOne" THEN 500
  ELSE IF ~UserFound(req) THEN 404
  ELSE IF req.fail = "find" THEN 500
  ELSE 200

NoDatabaseUse == matchRes.connects = 0 /\ matchRes.queries = 0

\* C5 as stated: every invocation sends exactly one response: 405 if the
\* method is not GET, else 401 without a session, else 404 if the user is
\* not found, 500 if a database step throws, otherwise 200; on the 405 and
\* 401 paths the database is neither connected to nor queried.
C5_ResponseOrder ==
  matchRes.called =>
    /\ Len(matchRes.sent) = 1
    /\ matchRes.sent[1].status = ClaimedStatus(matchRes.req)
    /\ matchRes.sent[1].status \in {405, 401} => NoDatabaseUse

\* C5 amended: as C5, and 500 also when req.query.userId is not a valid
\* ObjectId (after connecting, without any query).
C5_ResponseOrderAmended ==
  matchRes.called =>
    /\ Len(matchRes.sent) = 1
    /\ matchRes.sent[1].status = AmendedStatus(matchRes.req)
    /\ matchRes.sent[1].status \in {405, 401} => NoDatabaseUse
    /\ matchRes.req.method = "GET" /\ matchRes.req.hasSession
         /\ matchRes.req.fail # "connect" /\ matchRes.req.q.kind = "invalid"
         => matchRes.queries = 0

\* A GET with a session and an invalid userId, no database step throwing,
\* has been answered 500 after connecting.
C5_Witness ==
  /\ Answered(500)
  /\ matchRes.req.method = "GET"
  /\ matchRes.req.hasSession
  /\ matchRes.req.q.kind = "invalid"
  /\ matchRes.req.fail = "none"
  /\ matchRes.connects = 1

(***************************************************************************)
(* Claims about the NextAuth configuration (AuthSpec).                     *)
(***************************************************************************)
\* C6: a sign-in through provider 'demo-login' is allowed by the signIn
\* callback whatever the profile, and over every later sequence of jwt
\* callback invocations for its token no refresh request is sent to Spotify
\* and the token never carries the error 'RefreshAccessTokenError'.
C6_DemoAlwaysWorks ==
  /\ (signedIn.called /\ signedIn.provider = "demo-login") => signedIn.result = Allowed
  /\ (cookie # NoToken /\ provider = "demo-login") =>
       /\ ~refreshSent
       /\ cookie.error # "RefreshAccessTokenError"
       /\ (jwtCall.called /\ ~jwtCall.initial) => ~jwtCall.sent

\* The jwt callback has run again on the token of a demo sign-in, after
\* time has passed.
C6_Witness ==
  /\ cookie # NoToken
  /\ provider = "demo-login"
  /\ cookie.user = "demo-user"
  /\ jwtCall.called
  /\ ~jwtCall.initial
  /\ jwtCall.at > 1000
  /\ cookie.error = Undefined

IsDemoPair(credentials) ==
  /\ credentials # NoObject
  /\ Has(credentials, "username")
  /\ credentials.username = "demo"
  /\ Has(credentials, "password")
  /\ credentials.password = "demo123"

\* C7: authorize returns the demo user (id 'demo-user') if and only if the
\* username is exactly 'demo' and the password exactly 'demo123'; for every
\* other or missing pair it returns null.
C7_DemoCredentials ==
  authorized.called =>
    /\ IsDemoPair(authorized.credentials) =>
         authorized.user # NullUser /\ authorized.user.id = "demo-user"
    /\ ~IsDemoPair(authorized.credentials) => authorized.user = NullUser

\* authorize has returned the demo user.
C7_Witness ==
  /\ authorized.called
  /\ IsDemoPair(authorized.credentials)
  /\ authorized.user = DemoUser

(***************************************************************************)
(* Claims about calculatePlaylistCompatibility (CompatSpec).               *)
(***************************************************************************)
\* The score 1, in ten-thousandths.
InUnitInterval(x) == x.kind = "num" /\ 0 <= x.v /\ x.v <= 10 * 1000

\* C8: calculatePlaylistCompatibility returns a score within [0,1] for every
\* pair of profiles whose mood values, averaged features and diversity lie
\* in [0,1].
C8_CompatibilityInUnitInterval ==
  compat.computed => InUnitInterval(compat.value)

\* C10: a profile compared with itself scores the maximum, 1.
C10_SelfCompatibilityIsOne ==
  (compat.computed /\ playlist1 = playlist2) => compat.value = Num(10 * 1000)

(***************************************************************************)
(* Claims about MatchingAlgorithm.calculateMatchScore (ScoreSpec).         *)
(***************************************************************************)
\* C9: the similarity score is symmetric: calculateMatchScore(u1, u2) and
\* calculateMatchScore(u2, u1) give the same result for every pair of
\* profiles.
C9_MatchScoreSymmetric ==
  matchScore.computed => matchScore.forward = matchScore.backward

\* Two different profiles with track sets of different sizes that overlap
\* have been scored in both orders, with a finite non-zero result.
C9_Witness ==
  /\ matchScore.computed
  /\ listener1 # listener2
  /\ Cardinality(IdSet(listener1.recentTracks)) # Cardinality(IdSet(listener2.recentTracks))
  /\ IdSet(listener1.topArtists) # IdSet(listener2.topArtists)
  /\ matchScore.forward.kind = "num"
  /\ matchScore.forward.v > 0
  /\ matchScore.forward.v < 10 * 1000

\* C11: empty input lists do not produce NaN or a division by zero:
\* calculateMatchScore returns a finite number for every pair of profiles,
\* including profiles whose recentTracks, topArtists or topGenres are empty
\* on both sides.
C11_MatchScoreFinite ==
  matchScore.computed => matchScore.forward.kind = "num"

(***************************************************************************)
(* Claims about ListeningHistoryMatcher.calculateMatchScore (HistorySpec). *)
(***************************************************************************)
InUnitThousandths(x) == x.kind = "num" /\ 0 <= x.v /\ x.v <= 1000

\* C12: ListeningHistoryMatcher.calculateMatchScore lies in [0,1]: each of
\* its four components lies in [0,1] for all profiles with weights in [0,1]
\* and non-negative play counts, including profiles with empty
\* listening-pattern lists, and the weights sum to 1.
C12_HistoryScoreInUnitInterval ==
  /\ HistoryWeights.recentTrackOverlap + HistoryWeights.artistSimilarity
       + HistoryWeights.genreSimilarity + HistoryWeights.listeningPatternMatch = 10
  /\ historyScore.computed =>
       /\ \A key \in DOMAIN historyScore.value.scores :
            InUnitThousandths(historyScore.value.scores[key])
       /\ InUnitInterval(historyScore.value.total)

(***************************************************************************)
(* Claims about the token refresh (AuthSpec).                              *)
(***************************************************************************)
\* The token the last jwt invocation was given had expired when it ran.
WasExpired ==
  \/ jwtCall.before.accessTokenExpires = 0
  \/ jwtCall.before.accessTokenExpires <= jwtCall.at

\* C13: on a jwt callback invocation that is not an initial sign-in, a
\* refresh request is issued if and only if the token is expired
\* (accessTokenExpires absent/0 or not later than now), a refreshToken is
\* present and the user id is not 'demo-user'; in every other case the token
\* is returned unchanged.
C13_RefreshIff ==
  (jwtCall.called /\ ~jwtCall.initial) =>
    /\ jwtCall.sent <=>
         /\ WasExpired
         /\ jwtCall.before.refreshToken # Undefined
         /\ jwtCall.before.user # "demo-user"
    /\ ~jwtCall.sent => cookie = jwtCall.before

\* A jwt invocation at the very expiry time of a Spotify token has sent a
\* refresh request.
C13_Witness ==
  /\ jwtCall.called
  /\ ~jwtCall.initial
  /\ jwtCall.sent
  /\ jwtCall.before.accessTokenExpires = jwtCall.at
  /\ jwtCall.before.user = "spotify-user"

\* The tokens refreshAccessToken can be given.
RefreshTokens ==
  [signedIn : {TRUE}, accessToken : {Undefined, "at0"}, refreshToken : {Undefined, "rt0"},
   accessTokenExpires : {0, 1000}, error : {Undefined, "RefreshAccessTokenError"},
   user : {"demo-user", "spotify-user"}]

\* The refresh of a token came to a failure: it has no refresh token, or the
\* response is not OK, or the request or the parsing of its answer threw.
RefreshFails(token, outcome) == token.refreshToken = Undefined \/ outcome.kind # "ok"

\* C14: when the refresh fails (missing refresh token, non-OK response, or a
\* network/parse error) refreshAccessToken returns a token equal to its input
\* in every field except that error is 'RefreshAccessTokenError', and the
\* session callback then exposes that error on the session.
C14_RefreshFailureKeepsToken ==
  /\ \A token \in RefreshTokens, outcome \in RefreshOutcomes :
       RefreshFails(token, outcome) =>
         /\ RefreshAccessToken(token, outcome, now).token
              = [token EXCEPT !.error = "RefreshAccessTokenError"]
         /\ SessionOf(RefreshAccessToken(token, outcome, now).token).error
              = "RefreshAccessTokenError"
  /\ (jwtCall.called /\ ~jwtCall.initial /\ jwtCall.sent /\ jwtCall.outcome.kind # "ok") =>
       /\ cookie = [jwtCall.before EXCEPT !.error = "RefreshAccessTokenError"]
       /\ session.called => session.session.error = "RefreshAccessTokenError"

\* A refresh was answered not OK and the session callback has run on the
\* token it returned.
C14_Witness ==
  /\ jwtCall.called
  /\ ~jwtCall.initial
  /\ jwtCall.sent
  /\ jwtCall.outcome.kind = "notOk"
  /\ jwtCall.before.accessToken = "at0"
  /\ cookie.accessToken = "at0"
  /\ session.called
  /\ session.session.error = "RefreshAccessTokenError"

\* The last jwt invocation refreshed the token successfully.
Refreshed == jwtCall.called /\ ~jwtCall.initial /\ jwtCall.sent /\ jwtCall.outcome.kind = "ok"

\* A jwt invocation that follows a successful refresh and runs before the
\* expiry time the refresh has set sends no request and returns the token.
NoRefreshBeforeExpiry ==
  (/\ Refreshed
   /\ jwtCall' # jwtCall
   /\ jwtCall'.called
   /\ ~jwtCall'.initial
   /\ jwtCall'.at < cookie.accessTokenExpires)
    => (~jwtCall'.sent /\ cookie' = cookie)

\* C15: after a successful refresh the token holds the newly issued
\* accessToken, an accessTokenExpires equal to the refresh time plus
\* expires_in seconds (so the next jwt invocation before that time issues no
\* refresh), and the newly issued refreshToken if Spotify returned one,
\* otherwise the previous refreshToken unchanged.
C15_RefreshedToken ==
  /\ [](Refreshed =>
          /\ cookie.accessToken = jwtCall.outcome.access_token
          /\ cookie.accessTokenExpires = now + jwtCall.outcome.expires_in * 1000
          /\ cookie.refreshToken =
               IF jwtCall.outcome.refresh_token # Undefined
               THEN jwtCall.outcome.refresh_token
               ELSE jwtCall.before.refreshToken
          /\ cookie.user = jwtCall.before.user)
  /\ [][NoRefreshBeforeExpiry]_vars

\* A refresh that took time has succeeded without a new refresh token.
C15_Witness ==
  /\ Refreshed
  /\ jwtCall.outcome.refresh_token = Undefined
  /\ cookie.refreshToken = "rt0"
  /\ cookie.accessToken = "at2"
  /\ now > jwtCall.at
  /\ cookie.accessTokenExpires = now + 2000

\* C16: the refresh error is not sticky: if the most recent refresh attempt
\* for a token succeeded, the token and the session derived from it carry no
\* error field.
C16_ErrorNotSticky ==
  Refreshed =>
    /\ cookie.error = Undefined
    /\ session.called => session.session.error = Undefined

(***************************************************************************)
(* Claims about connectToDatabase (DbSpec).                                *)
(***************************************************************************)
\* C17: once a connectToDatabase call has completed successfully, every
\* later call returns the identical client and db objects and performs no
\* further MongoClient.connect and no further createIndex calls.
C17_ConnectionCached ==
  \A c \in 1..MaxCalls :
    (dbCalls[c].pc # "idle" /\ dbCalls[c].after # {}) =>
      /\ ~dbCalls[c].connected
      /\ ~dbCalls[c].indexed
      /\ dbCalls[c].pc = "resolved"
      /\ dbCalls[c].after = {dbCalls[c].client}
      /\ dbCalls[c].db = DbOf(dbCalls[c].client)

\* C18: under any interleaving of concurrent connectToDatabase calls in one
\* process, with no call failing, MongoClient.connect is invoked at most
\* once, so at most one client is ever opened.
C18_SingleConnect ==
  (\A c \in 1..MaxCalls : dbCalls[c].pc # "rejected") => dbConnects <= 1

\* The clients of the connections that have succeeded: those of the calls
\* that connected and resolved.
Succeeded ==
  {dbCalls[c].client :
     c \in {d \in 1..MaxCalls : dbCalls[d].pc = "resolved" /\ dbCalls[d].connected}}

\* cachedClient and cachedDb are both null or the client and db of the same
\* successful connection.
CachePaired ==
  \/ dbCachedClient = Null /\ dbCachedDb = Null
  \/ /\ dbCachedClient \in Succeeded
     /\ dbCachedDb = DbOf(dbCachedClient)

\* A call that finds the cache empty makes a connection attempt of its own,
\* and only such a call does.
FreshAttempt(c) ==
  dbCalls[c].pc # "idle" => (dbCalls[c].connected <=> dbCalls[c].cacheAtStart = <<Null, Null>>)

RECURSIVE IsSubsequence(_, _)
IsSubsequence(sub, list) ==
  IF sub = <<>> THEN TRUE
  ELSE IF list = <<>> THEN FALSE
  ELSE IF Head(sub) = Head(list) THEN IsSubsequence(Tail(sub), Tail(list))
  ELSE IsSubsequence(sub, Tail(list))

\* The positions of tracks whose artists include the id.
TracksOfArtist(tracks, id) ==
  {i \in 1..Len(tracks) : \E a \in 1..Len(tracks[i].artists) : tracks[i].artists[a].id = id}

\* The positions of tracks one of whose artists lists the genre.
TracksOfGenre(tracks, genre) ==
  {i \in 1..Len(tracks) :
     \E a \in 1..Len(tracks[i].artists) :
       /\ tracks[i].artists[a].hasGenres
       /\ genre \in IdSet(tracks[i].artists[a].genres)}

ArtistIdsIn(tracks) ==
  UNION {IdSet(ArtistIds(tracks[i].artists)) : i \in 1..Len(tracks)}

GenresIn(tracks) ==
  UNION {IdSet(FlatMapGenres(tracks[i].artists)) : i \in 1..Len(tracks)}

\* C21: diversifyRecommendations returns a subsequence of the ranked input,
\* of at most 10 tracks, in which no artist id is on more than 2 tracks and
\* no genre is on more than 3 tracks.
C21_DiversifiedSubsequence ==
  diversifiedTracks.computed =>
    LET result == diversifiedTracks.tracks IN
    /\ IsSubsequence(result, rankedTracks)
    /\ Len(result) <= MaxDiversified
    /\ \A id \in ArtistIdsIn(rankedTracks) :
         Cardinality(TracksOfArtist(result, id)) <= ArtistLimit
    /\ \A genre \in GenresIn(rankedTracks) :
         Cardinality(TracksOfGenre(result, genre)) <= GenreLimit

\* A ranking of more than 10 tracks has been cut at 10, after tracks were
\* left out for their artist and for their genre, with an artist on 2 of
\* the tracks kept and a genre on 3 of them.
C21_Witness ==
  /\ diversifiedTracks.computed
  /\ Len(rankedTracks) > MaxDiversified
  /\ Len(diversifiedTracks.tracks) = MaxDiversified
  /\ diversifiedTracks.tracks # SubSeq(rankedTracks, 1, MaxDiversified)
  /\ \E id \in ArtistIdsIn(rankedTracks) :
       /\ Cardinality(TracksOfArtist(diversifiedTracks.tracks, id)) = ArtistLimit
       /\ Cardinality(TracksOfArtist(rankedTracks, id)) > ArtistLimit
  /\ \E genre \in GenresIn(rankedTracks) :
       /\ Cardinality(TracksOfGenre(diversifiedTracks.tracks, genre)) = GenreLimit
       /\ Cardinality(TracksOfGenre(rankedTracks, genre)) > GenreLimit

====
